---- MODULE Spec2Model ----
(***************************************************************************)
(* Slice & Slide: the page/block model of App.tsx (pages, selection, undo  *)
(* history, the processing effect, merge, OCR and export) together with    *)
(* the block detector of services/imageProcessing.ts.                      *)
(*                                                                         *)
(* React state is the module's variables.  An event handler is one action: *)
(* it reads the state of the render it was created in (the unprimed        *)
(* variables), and a handler that awaits is split at its awaits, carrying  *)
(* the values its closure captured in the record of the pending operation. *)
(* The passive effects of the render that follows a handler (the           *)
(* processing effect) are part of the handler's action.                    *)
(***************************************************************************)
EXTENDS Integers, Sequences, FiniteSets, TLC

VARIABLES
    pages,                 \* useState<Page[]>
    activePageIndex,       \* useState<number>, 0-based
    globalStatus,          \* useState<ProcessingStatus>
    selectedBlockIds,      \* useState<Set<string>>
    history,               \* useState<Page[][]>
    debouncedGranularity,  \* useDebounce's debouncedValue
    detections,            \* processCurrentPage calls awaiting detectBlocks
    merges,                \* handleMergeBlocks calls awaiting extractRegion
    job,                   \* the handleRunOcr / handleDownload / handleFileLoaded call in flight
    now,                   \* the last value Date.now() returned
    opLog,                 \* history variable: the page collection before each edit not yet undone
    undoable,              \* history variable: how many of those edits undo is required to revert
    lastOp,                \* history variable: the handler or callback that took the last step
    steps,                 \* history variable: the number of steps taken
    lab                    \* a function of the services under test: its input, then its result

vars == <<pages, activePageIndex, globalStatus, selectedBlockIds, history,
          debouncedGranularity, detections, merges, job, now, opLog, undoable, lastOp, steps,
          lab>>

-----------------------------------------------------------------------------
(* Program constants *)

HistoryLimit == 20
DefaultGranularity == 5
InkThreshold == 230
MinKernel == 2
NoiseLimit == 5
TextMaxHeight == 150
WideTextMaxHeight == 300

(* Bounds of the model *)

MaxGran == 1          \* slider positions 1 .. MaxGran, and the default
MaxNow == 2           \* Date.now() ranges over 0 .. MaxNow
MaxSteps == 9         \* handler and callback steps of one session
MaxVaried == 3        \* editing session: direct calls of any handler, with any argument
FillSteps == 22       \* editing session: type toggles that fill the history past its limit
DrainSteps == 22      \* editing session: undos that empty it again
MaxSlider == 3        \* slider session: the slider moves among 1 .. MaxSlider and the default
MaxSliderSteps == 7   \* slider session: slider moves, timer expiries, detection results
MaxDetectGran == 3    \* detector runs: granularities 1 .. MaxDetectGran
MaxMarks == 2         \* detector runs: marks painted on a test raster
MaxModeCount == 2     \* OCR service runs: pixels at each mode of a histogram
SwatchSize == 10      \* OCR service runs: pixels of a swatch
MaxTextPixels == 5    \* OCR service runs: pixels of the second colour of a swatch
MaxFailing == 2       \* OCR service runs: blocks on which recognition fails
MaxPageSteps == 5     \* two-page session: what the user does

IDLE == "IDLE"
PROCESSING == "PROCESSING"
READY == "READY"
ERROR == "ERROR"

\* An optional numeric field that is undefined (granularity?, processedGranularity?).
Undefined == 0

Min(a, b) == IF a < b THEN a ELSE b
Max(a, b) == IF a > b THEN a ELSE b
SetMin(S) == CHOOSE m \in S : \A n \in S : m <= n
SetMax(S) == CHOOSE m \in S : \A n \in S : m >= n
Abs(n) == IF n < 0 THEN -n ELSE n

-----------------------------------------------------------------------------
(* Rasters.  An image is its native width and height and the pixels that   *)
(* drawImage leaves on the half-size white canvas: ink[idx] is the RGB     *)
(* triple at canvas index idx = y * w + x.                                 *)

White == <<255, 255, 255>>
Black == <<0, 0, 0>>

CanvasW(img) == img.width \div 2
CanvasH(img) == img.height \div 2

\* A canvas that is white except for black rectangles (x0, y0, x1, y1), corners included.
Drawing(width, height, rects) ==
    [width |-> width, height |-> height,
     data |-> [idx \in 0 .. ((width \div 2) * (height \div 2) - 1) |->
                 LET x == idx % (width \div 2)
                     y == idx \div (width \div 2)
                 IN IF \E r \in rects : x >= r[1] /\ x <= r[3] /\ y >= r[2] /\ y <= r[4]
                    THEN Black ELSE White]]

\* The same with the marks in colour ink on a canvas of colour paper.
Painting(width, height, rects, ink, paper) ==
    [width |-> width, height |-> height,
     data |-> [idx \in 0 .. ((width \div 2) * (height \div 2) - 1) |->
                 LET x == idx % (width \div 2)
                     y == idx \div (width \div 2)
                 IN IF \E r \in rects : x >= r[1] /\ x <= r[3] /\ y >= r[2] /\ y <= r[4]
                    THEN ink ELSE paper]]

ImageA == Drawing(72, 16, {<<2, 3, 4, 5>>, <<9, 3, 11, 5>>, <<26, 3, 28, 5>>})
ImageB == Drawing(60, 16, {<<2, 3, 4, 5>>, <<19, 3, 21, 5>>})

ImageSources == {"A", "B"}
LoadImage(src) == IF src = "A" THEN ImageA ELSE ImageB

-----------------------------------------------------------------------------
(* detectBlocks *)

kernelSize(granularity) == Max(MinKernel, (granularity * 3) \div 2)

brightness3(px) == px[1] + px[2] + px[3]

\* A variant that also counts a pixel at the threshold as ink.
IsInkAtThreshold(img, idx) == brightness3(img.data[idx]) <= 3 * InkThreshold

IsInk(img, idx) == brightness3(img.data[idx]) < 3 * InkThreshold

\* The binary map after the threshold-and-dilate pass: the indices set to 1.
binaryMap(img, granularity) ==
    LET w == CanvasW(img)
        h == CanvasH(img)
        k == kernelSize(granularity)
        inks == {i \in 0 .. (w * h - 1) : IsInk(img, i)}
    IN {j \in 0 .. (w * h - 1) :
          \E i \in inks :
             LET x == i % w
                 y == i \div w
                 dx == j % w
                 dy == j \div w
             IN /\ dy >= Max(0, y - k) /\ dy < Min(h, y + k)
                /\ dx >= Max(0, x - k) /\ dx < Min(w, x + k)}

neighbors(w, h, currIdx) ==
    {nIdx \in {currIdx - 1, currIdx + 1, currIdx - w, currIdx + w} :
        /\ nIdx >= 0 /\ nIdx < w * h
        /\ Abs((nIdx % w) - (currIdx % w)) <= 1}

RECURSIVE floodFill(_, _, _, _, _)
floodFill(w, h, map, frontier, visited) ==
    IF frontier = {} THEN visited
    ELSE LET next == {n \in UNION {neighbors(w, h, c) : c \in frontier} :
                         n \in map /\ n \notin visited}
         IN floodFill(w, h, map, next, visited \cup next)

\* A variant that maps the far edges of the bounding box back one pixel too far.
detectedBlockRoundedOut(img, component, count) ==
    LET w == CanvasW(img)
        xs == {i % w : i \in component}
        ys == {i \div w : i \in component}
        blockW == SetMax(xs) - SetMin(xs) + 1
        blockH == SetMax(ys) - SetMin(ys) + 1
    IN [keep |-> blockW > NoiseLimit /\ blockH > NoiseLimit,
        block |-> [x |-> 2 * SetMin(xs), y |-> 2 * SetMin(ys),
                   width |-> 2 * blockW + 1, height |-> 2 * blockH + 1,
                   id |-> <<"block", count>>,
                   dataUrl |-> <<"masked", 2 * SetMin(xs), 2 * SetMin(ys),
                                 2 * blockW + 1, 2 * blockH + 1>>,
                   type |-> "text", text |-> "", preserveBackground |-> "unset"]]

detectedBlock(img, component, count) ==
    LET w == CanvasW(img)
        xs == {i % w : i \in component}
        ys == {i \div w : i \in component}
        minX == SetMin(xs)
        minY == SetMin(ys)
        blockW == SetMax(xs) - minX + 1
        blockH == SetMax(ys) - minY + 1
        originalX == 2 * minX
        originalY == 2 * minY
        originalW == 2 * blockW
        originalH == 2 * blockH
        isLikelyText == (originalH < TextMaxHeight)
                        \/ (2 * originalW > 5 * originalH /\ originalH < WideTextMaxHeight)
    IN [keep |-> blockW > NoiseLimit /\ blockH > NoiseLimit,
        block |-> [x |-> originalX, y |-> originalY,
                   width |-> originalW, height |-> originalH,
                   id |-> <<"block", count>>,
                   dataUrl |-> <<"masked", originalX, originalY, originalW, originalH>>,
                   type |-> IF isLikelyText THEN "text" ELSE "image",
                   text |-> "", preserveBackground |-> "unset"]]

RECURSIVE labelComponents(_, _, _, _)
labelComponents(img, map, visited, blocks) ==
    LET todo == map \ visited
    IN IF todo = {} THEN blocks
       ELSE LET startIdx == SetMin(todo)
                component == floodFill(CanvasW(img), CanvasH(img), map,
                                       {startIdx}, {startIdx})
                found == detectedBlock(img, component, Len(blocks))
            IN labelComponents(img, map, visited \cup component,
                               IF found.keep THEN Append(blocks, found.block) ELSE blocks)

detectBlocks(img, granularity) ==
    labelComponents(img, binaryMap(img, granularity), {}, <<>>)

-----------------------------------------------------------------------------
(* Pages and blocks *)

Grans == {DefaultGranularity} \cup (1 .. MaxGran)

\* The slider positions of a slider session.
SliderGrans == {DefaultGranularity} \cup (1 .. MaxSlider)

\* The documents a user drops: each is the list of its pages' images.
Files == {<<"A">>}

HasPage(ps, index) == index >= 0 /\ index < Len(ps)
PageAt(ps, index) == ps[index + 1]

\* prev.map((p, i) => i === index ? changed : p), changed computed from the page at index.
mapPage(ps, index, changed) ==
    IF HasPage(ps, index) THEN [ps EXCEPT ![index + 1] = changed] ELSE ps

SeqToSet(s) == {s[i] : i \in DOMAIN s}
blockIds(page) == {page.blocks[i].id : i \in DOMAIN page.blocks}

\* pages[activePageIndex], where there is one.
activePage == PageAt(pages, activePageIndex)

\* activePage?.granularity ?? 5
currentGranularity(ps, index) ==
    IF HasPage(ps, index) /\ PageAt(ps, index).granularity # Undefined
    THEN PageAt(ps, index).granularity
    ELSE DefaultGranularity

\* JSON.parse(JSON.stringify(pages)): every page and block rebuilt from its own
\* enumerable fields; a field that is undefined is left out of the copy.
cloneBlock(b) ==
    [x |-> b.x, y |-> b.y, width |-> b.width, height |-> b.height, id |-> b.id,
     dataUrl |-> b.dataUrl, type |-> b.type, text |-> b.text,
     preserveBackground |-> b.preserveBackground]

clonePage(p) ==
    [id |-> p.id, pageNumber |-> p.pageNumber, imageSrc |-> p.imageSrc,
     width |-> p.width, height |-> p.height,
     blocks |-> [i \in DOMAIN p.blocks |-> cloneBlock(p.blocks[i])],
     status |-> p.status, granularity |-> p.granularity,
     processedGranularity |-> p.processedGranularity]

deepCopy(ps) == [i \in DOMAIN ps |-> clonePage(ps[i])]

\* A history that, once full, drops the new snapshot instead of the oldest.
addToHistoryKeepingOldest(prev, ps) ==
    LET newHistory == Append(prev, deepCopy(ps))
    IN IF Len(newHistory) > HistoryLimit
       THEN SubSeq(newHistory, 1, HistoryLimit)
       ELSE newHistory

\* setHistory(prev => ...) of addToHistory, with the render's pages.
addToHistory(prev, ps) ==
    LET newHistory == Append(prev, deepCopy(ps))
    IN IF Len(newHistory) > HistoryLimit
       THEN SubSeq(newHistory, Len(newHistory) - HistoryLimit + 1, Len(newHistory))
       ELSE newHistory

\* detectBlocks is a function of the image and the granularity: its results, tabulated.
DetectTable ==
    [src \in ImageSources |->
        [g \in Grans \cup SliderGrans |-> detectBlocks(LoadImage(src), g)]]

\* A store that leaves the page's granularity as the slider last set it.
storeDetectionKeepingGranularity(p, imageSrc, g) ==
    [p EXCEPT !.blocks = DetectTable[imageSrc][g],
              !.status = READY,
              !.processedGranularity = g]

\* { ...p, blocks: result.blocks, status: READY, granularity: g, processedGranularity: g }
\* with result = await detectBlocks(imageSrc, g).
storeDetection(p, imageSrc, g) ==
    [p EXCEPT !.blocks = DetectTable[imageSrc][g],
              !.status = READY,
              !.granularity = g,
              !.processedGranularity = g]

\* g = x || 5
orDefault(g) == IF g = Undefined THEN DefaultGranularity ELSE g

-----------------------------------------------------------------------------
(* The state a handler leaves, before the passive effects of the next render *)

Cur ==
    [pages |-> pages, api |-> activePageIndex, sel |-> selectedBlockIds,
     deb |-> debouncedGranularity, dets |-> detections,
     log |-> opLog, und |-> undoable]

\* The effect's dependency array [debouncedGranularity, activePageIndex, pages.length].
depsChanged(s) ==
    \/ s.deb # debouncedGranularity
    \/ s.api # activePageIndex
    \/ Len(s.pages) # Len(pages)

\* processCurrentPage up to its optimistic update.
needsProcessing(ps, index, targetGranularity) ==
    /\ Len(ps) # 0
    /\ HasPage(ps, index)
    /\ LET currentPage == PageAt(ps, index)
           isStable == currentPage.granularity = targetGranularity
           isStale == currentPage.processedGranularity # targetGranularity
       IN /\ currentPage.status = IDLE \/ (isStable /\ isStale)
          /\ currentPage.status # PROCESSING

markProcessing(p) == [p EXCEPT !.status = PROCESSING]

\* The render after a handler: the processing effect runs when a dependency changed.
Commit(s) ==
    LET fire == depsChanged(s) /\ needsProcessing(s.pages, s.api, s.deb)
    IN /\ pages' = IF fire THEN mapPage(s.pages, s.api, markProcessing(PageAt(s.pages, s.api))) ELSE s.pages
       /\ activePageIndex' = s.api
       /\ selectedBlockIds' = IF fire THEN {} ELSE s.sel
       /\ debouncedGranularity' = s.deb
       /\ detections' =
            IF fire
            THEN Append(s.dets, [pageIndex |-> s.api, g |-> orDefault(s.deb),
                                 imageSrc |-> PageAt(s.pages, s.api).imageSrc,
                                 pageId |-> PageAt(s.pages, s.api).id,
                                 pageGranularity |-> PageAt(s.pages, s.api).granularity])
            ELSE s.dets
       /\ opLog' = IF fire THEN <<>> ELSE s.log
       /\ undoable' = IF fire THEN 0 ELSE s.und

-----------------------------------------------------------------------------
(* Initial state: the mounted App, before any file is dropped *)

\* No service function is under test.
NoLab == [fn |-> "none", in |-> <<>>, done |-> FALSE, out |-> <<>>]

NoJob == [kind |-> "none", phase |-> "", pages |-> <<>>, i |-> 0,
          needsUpdate |-> FALSE, file |-> <<>>]

Init ==
    /\ pages = <<>>
    /\ activePageIndex = 0
    /\ globalStatus = IDLE
    /\ selectedBlockIds = {}
    /\ history = <<>>
    /\ debouncedGranularity = DefaultGranularity
    /\ detections = <<>>
    /\ merges = <<>>
    /\ job = NoJob
    /\ now = 0
    /\ opLog = <<>>
    /\ undoable = 0
    /\ lastOp = "mount"
    /\ steps = 0
    /\ lab = NoLab

RemoveAt(s, j) == SubSeq(s, 1, j - 1) \o SubSeq(s, j + 1, Len(s))

-----------------------------------------------------------------------------
(* Loading and resetting *)

handleFileLoaded(file) ==
    /\ globalStatus' = PROCESSING
    /\ history' = <<>>
    /\ job' = [NoJob EXCEPT !.kind = "load", !.phase = "read", !.file = file]
    /\ Commit([Cur EXCEPT !.pages = <<>>, !.api = 0, !.sel = {}, !.log = <<>>, !.und = 0])
    /\ UNCHANGED <<merges, now>>
    /\ lastOp' = "load"

newPage(file, index, t) ==
    [id |-> <<"page", t, index>>,
     pageNumber |-> index + 1,
     imageSrc |-> file[index + 1],
     width |-> LoadImage(file[index + 1]).width,
     height |-> LoadImage(file[index + 1]).height,
     blocks |-> <<>>,
     status |-> IDLE,
     granularity |-> DefaultGranularity,
     processedGranularity |-> Undefined]

\* Reading a file takes more than a millisecond: each load ends at a later Date.now().
fileLoaded ==
    /\ job.kind = "load"
    /\ \E t \in (now + 1) .. MaxNow :
          /\ now' = t
          /\ Commit([Cur EXCEPT !.pages = [i \in 1 .. Len(job.file) |->
                                             newPage(job.file, i - 1, t)]])
    /\ globalStatus' = READY
    /\ job' = NoJob
    /\ UNCHANGED <<history, merges>>
    /\ lastOp' = "loaded"

fileLoadFailed ==
    /\ job.kind = "load"
    /\ globalStatus' = ERROR
    /\ job' = NoJob
    /\ UNCHANGED <<pages, activePageIndex, selectedBlockIds, history,
                   debouncedGranularity, detections, merges, now, opLog, undoable>>
    /\ lastOp' = "load-failed"

handleReset ==
    /\ history' = <<>>
    /\ globalStatus' = IDLE
    /\ Commit([Cur EXCEPT !.pages = <<>>, !.api = 0, !.sel = {}, !.log = <<>>, !.und = 0])
    /\ UNCHANGED <<merges, job, now>>
    /\ lastOp' = "reset"

-----------------------------------------------------------------------------
(* Granularity, debounce, page navigation, the processing effect's await *)

setGranularity(p, newVal) == [p EXCEPT !.granularity = newVal]

\* A slider handler that does not wait for the quiet period.
handleGranularityChangeAtOnce(newVal) ==
    /\ Commit([Cur EXCEPT !.pages = mapPage(pages, activePageIndex,
                                             setGranularity(activePage, newVal)),
                          !.deb = newVal])
    /\ UNCHANGED <<globalStatus, history, merges, job, now>>
    /\ lastOp' = "granularity"

handleGranularityChange(newVal) ==
    /\ Commit([Cur EXCEPT !.pages =
                 IF HasPage(pages, activePageIndex)
                 THEN mapPage(pages, activePageIndex, setGranularity(activePage, newVal))
                 ELSE pages])
    /\ UNCHANGED <<globalStatus, history, merges, job, now>>
    /\ lastOp' = "granularity"

\* useDebounce's timer: 500 ms after the last change of currentGranularity.
debounceFires ==
    /\ debouncedGranularity # currentGranularity(pages, activePageIndex)
    /\ Commit([Cur EXCEPT !.deb = currentGranularity(pages, activePageIndex)])
    /\ UNCHANGED <<globalStatus, history, merges, job, now>>
    /\ lastOp' = "debounce"

setActivePageIndex(index) ==
    /\ Commit([Cur EXCEPT !.api = index])
    /\ UNCHANGED <<globalStatus, history, merges, job, now>>
    /\ lastOp' = "page"

setError(p) == [p EXCEPT !.status = ERROR]

\* The await of processCurrentPage returns (ok) or throws (~ok).
detectionSettles(j, ok) ==
    /\ j \in DOMAIN detections
    /\ LET d == detections[j]
       IN Commit([Cur EXCEPT
                    !.pages = IF ok
                              THEN mapPage(pages, d.pageIndex,
                                      storeDetection(PageAt(pages, d.pageIndex), d.imageSrc, d.g))
                              ELSE mapPage(pages, d.pageIndex,
                                      setError(PageAt(pages, d.pageIndex))),
                    !.dets = RemoveAt(detections, j),
                    !.log = <<>>, !.und = 0])
    /\ UNCHANGED <<globalStatus, history, merges, job, now>>
    /\ lastOp' = (IF ok THEN "detected" ELSE "detect-failed")

-----------------------------------------------------------------------------
(* Edits: type toggle, background toggle, selection, merge, undo *)

\* The history variables at the start of an edit.  An edit that starts while a
\* merge is still awaiting its crop overlaps it: nothing is recorded for either.
logEdit(s) ==
    IF merges # <<>>
    THEN [s EXCEPT !.log = <<>>, !.und = 0]
    ELSE [s EXCEPT !.log = Append(opLog, pages), !.und = Min(HistoryLimit, undoable + 1)]

\* A toggle that never touches preserveBackground.
toggleTypeKeepingBackground(b) ==
    [b EXCEPT !.type = IF b.type = "text" THEN "image" ELSE "text"]

toggleType(b) ==
    IF b.type = "text"
    THEN [b EXCEPT !.type = "image"]
    ELSE [b EXCEPT !.type = "text", !.preserveBackground = "false"]

\* !b.preserveBackground
negate(flag) == IF flag = "true" THEN "false" ELSE "true"

toggleBackground(b) ==
    IF b.type = "text"
    THEN [b EXCEPT !.preserveBackground = negate(b.preserveBackground)]
    ELSE b

\* p.blocks.map(b => b.id === blockId ? changed : b), changed[i] computed from block i.
mapBlocks(p, blockId, changed) ==
    [p EXCEPT !.blocks = [i \in DOMAIN p.blocks |->
                            IF p.blocks[i].id = blockId
                            THEN changed[i]
                            ELSE p.blocks[i]]]

handleToggleBlockType(pageIndex, blockId) ==
    /\ history' = addToHistory(history, pages)
    /\ Commit(logEdit([Cur EXCEPT !.pages =
                 LET p == PageAt(pages, pageIndex)
                 IN mapPage(pages, pageIndex, mapBlocks(p, blockId,
                        [i \in DOMAIN p.blocks |-> toggleType(p.blocks[i])]))]))
    /\ UNCHANGED <<globalStatus, merges, job, now>>
    /\ lastOp' = "toggle-type"

handleToggleBackground(pageIndex, blockId) ==
    /\ history' = addToHistory(history, pages)
    /\ Commit(logEdit([Cur EXCEPT !.pages =
                 LET p == PageAt(pages, pageIndex)
                 IN mapPage(pages, pageIndex, mapBlocks(p, blockId,
                        [i \in DOMAIN p.blocks |-> toggleBackground(p.blocks[i])]))]))
    /\ UNCHANGED <<globalStatus, merges, job, now>>
    /\ lastOp' = "toggle-background"

handleBlockSelect(blockId) ==
    /\ Commit([Cur EXCEPT !.sel = IF blockId \in selectedBlockIds
                                  THEN selectedBlockIds \ {blockId}
                                  ELSE selectedBlockIds \cup {blockId}])
    /\ UNCHANGED <<globalStatus, history, merges, job, now>>
    /\ lastOp' = "select"

handleMultiSelect(ids) ==
    /\ Commit([Cur EXCEPT !.sel = ids])
    /\ UNCHANGED <<globalStatus, history, merges, job, now>>
    /\ lastOp' = "multi-select"

\* The union bounding box of the blocks to merge.
unionBox(blocksToMerge) ==
    LET bs == SeqToSet(blocksToMerge)
        minX == SetMin({b.x : b \in bs})
        minY == SetMin({b.y : b \in bs})
        maxX == SetMax({b.x + b.width : b \in bs})
        maxY == SetMax({b.y + b.height : b \in bs})
    IN [x |-> minX, y |-> minY, width |-> maxX - minX, height |-> maxY - minY]

\* handleMergeBlocks up to its await of extractRegion.
handleMergeBlocks ==
    IF Cardinality(selectedBlockIds) < 2
    THEN /\ lastOp' = "merge-rejected"
         /\ UNCHANGED <<pages, activePageIndex, globalStatus, selectedBlockIds, history,
                        debouncedGranularity, detections, merges, job, now, opLog, undoable>>
    ELSE /\ history' = addToHistory(history, pages)
         /\ Commit(logEdit(Cur))
         /\ LET page == PageAt(pages, activePageIndex)
                blocksToMerge == SelectSeq(page.blocks, LAMBDA b : b.id \in selectedBlockIds)
            IN IF Len(blocksToMerge) < 2
               THEN /\ merges' = merges
                    /\ lastOp' = "merge-unresolved"
               ELSE /\ merges' = Append(merges, [pageIndex |-> activePageIndex,
                                                 selected |-> selectedBlockIds,
                                                 imageSrc |-> page.imageSrc,
                                                 box |-> unionBox(blocksToMerge)])
                    /\ lastOp' = "merge"
         /\ UNCHANGED <<globalStatus, job, now>>

\* extractRegion's data URL: the crop of that rectangle of the page image.
extractRegion(imageSrc, x, y, width, height) == <<"crop", x, y, width, height>>

mergedBlock(m, t) ==
    [id |-> <<"block-merged", t>>,
     x |-> m.box.x, y |-> m.box.y, width |-> m.box.width, height |-> m.box.height,
     dataUrl |-> extractRegion(m.imageSrc, m.box.x, m.box.y, m.box.width, m.box.height),
     type |-> "image", text |-> "", preserveBackground |-> "unset"]

\* [...p.blocks.filter(b => !selectedBlockIds.has(b.id)), newBlock]
replaceMerged(p, selected, newBlock) ==
    [p EXCEPT !.blocks =
        Append(SelectSeq(p.blocks, LAMBDA b : b.id \notin selected), newBlock)]

\* extractRegion resolves: the rest of handleMergeBlocks.
mergeCompletes(j) ==
    /\ j \in DOMAIN merges
    /\ \E t \in now .. MaxNow :
          /\ now' = t
          /\ Commit([Cur EXCEPT
                       !.pages = mapPage(pages, merges[j].pageIndex,
                                   replaceMerged(PageAt(pages, merges[j].pageIndex),
                                                 merges[j].selected,
                                                 mergedBlock(merges[j], t))),
                       !.sel = {}])
    /\ merges' = RemoveAt(merges, j)
    /\ UNCHANGED <<globalStatus, history, job>>
    /\ lastOp' = "merged"

\* A catch that still removes the selected blocks.
mergeFailsDroppingBlocks(j) ==
    /\ j \in DOMAIN merges
    /\ merges' = RemoveAt(merges, j)
    /\ pages' = mapPage(pages, merges[j].pageIndex,
                   [PageAt(pages, merges[j].pageIndex) EXCEPT !.blocks =
                      SelectSeq(@, LAMBDA b : b.id \notin merges[j].selected)])
    /\ UNCHANGED <<activePageIndex, globalStatus, selectedBlockIds, history,
                   debouncedGranularity, detections, job, now, opLog, undoable>>
    /\ lastOp' = "merge-failed"

\* extractRegion rejects: the catch of handleMergeBlocks.
mergeFails(j) ==
    /\ j \in DOMAIN merges
    /\ merges' = RemoveAt(merges, j)
    /\ UNCHANGED <<pages, activePageIndex, globalStatus, selectedBlockIds, history,
                   debouncedGranularity, detections, job, now, opLog, undoable>>
    /\ lastOp' = "merge-failed"

\* An undo that goes back to the oldest snapshot.
oldestPages(h) == h[1]

\* The page collection undo restores.
previousPages(h) == h[Len(h)]

\* An undo that clears the selection before it looks at the history.
handleUndoClearingSelection ==
    IF Len(history) = 0
    THEN /\ lastOp' = "undo-empty"
         /\ selectedBlockIds' = {}
         /\ UNCHANGED <<pages, activePageIndex, globalStatus, history,
                        debouncedGranularity, detections, merges, job, now, opLog, undoable>>
    ELSE /\ history' = SubSeq(history, 1, Len(history) - 1)
         /\ Commit([Cur EXCEPT
                      !.pages = history[Len(history)],
                      !.sel = {},
                      !.log = IF merges # <<>> \/ opLog = <<>> THEN <<>>
                              ELSE SubSeq(opLog, 1, Len(opLog) - 1),
                      !.und = IF merges # <<>> \/ undoable = 0 THEN 0 ELSE undoable - 1])
         /\ lastOp' = "undo"
         /\ UNCHANGED <<globalStatus, merges, job, now>>

handleUndo ==
    IF Len(history) = 0
    THEN /\ lastOp' = "undo-empty"
         /\ UNCHANGED <<pages, activePageIndex, globalStatus, selectedBlockIds, history,
                        debouncedGranularity, detections, merges, job, now, opLog, undoable>>
    ELSE /\ history' = SubSeq(history, 1, Len(history) - 1)
         /\ Commit([Cur EXCEPT
                      !.pages = previousPages(history),
                      !.sel = {},
                      !.log = IF merges # <<>> \/ opLog = <<>> THEN <<>>
                              ELSE SubSeq(opLog, 1, Len(opLog) - 1),
                      !.und = IF merges # <<>> \/ undoable = 0 THEN 0 ELSE undoable - 1])
         /\ lastOp' = "undo"
         /\ UNCHANGED <<globalStatus, merges, job, now>>

-----------------------------------------------------------------------------
(* Run OCR and Export: the "ensure all pages are sliced" loop, then the pass *)

\* The first index >= from of a page that is not READY; Len(ps) when there is none.
nextUnready(ps, from) ==
    LET waiting == {i \in from .. (Len(ps) - 1) : PageAt(ps, i).status # READY}
    IN IF waiting = {} THEN Len(ps) ELSE SetMin(waiting)

\* The loop runs up to its next await of detectBlocks, or out of the loop.
sliceFrom(kind, processedPages, from, needsUpdate) ==
    LET i == nextUnready(processedPages, from)
    IN [NoJob EXCEPT !.kind = kind,
                     !.phase = IF i < Len(processedPages) THEN "detect" ELSE "pass",
                     !.pages = processedPages,
                     !.i = i,
                     !.needsUpdate = needsUpdate]

handleRunOcr ==
    IF Len(pages) = 0
    THEN /\ lastOp' = "ocr-rejected"
         /\ UNCHANGED <<pages, activePageIndex, globalStatus, selectedBlockIds, history,
                        debouncedGranularity, detections, merges, job, now, opLog, undoable>>
    ELSE /\ history' = addToHistory(history, pages)
         /\ globalStatus' = PROCESSING
         /\ job' = sliceFrom("ocr", pages, 0, FALSE)
         /\ Commit([Cur EXCEPT !.log = <<>>, !.und = 0])
         /\ lastOp' = "ocr"
         /\ UNCHANGED <<merges, now>>

handleDownload ==
    IF Len(pages) = 0
    THEN /\ lastOp' = "export-rejected"
         /\ UNCHANGED <<pages, activePageIndex, globalStatus, selectedBlockIds, history,
                        debouncedGranularity, detections, merges, job, now, opLog, undoable>>
    ELSE /\ globalStatus' = PROCESSING
         /\ job' = sliceFrom("export", pages, 0, FALSE)
         /\ Commit(Cur)
         /\ lastOp' = "export"
         /\ UNCHANGED <<history, merges, now>>

\* The loop's await of detectBlocks returns (ok) or throws (~ok).
sliceSettles(ok) ==
    /\ job.phase = "detect"
    /\ IF ok
       THEN LET q == PageAt(job.pages, job.i)
                processedPages == mapPage(job.pages, job.i,
                    storeDetection(q, q.imageSrc, orDefault(q.granularity)))
                next == sliceFrom(job.kind, processedPages, job.i + 1, TRUE)
            IN /\ job' = next
               /\ globalStatus' = globalStatus
               /\ IF job.kind = "export" /\ next.phase = "pass"
                  THEN Commit([Cur EXCEPT !.pages = processedPages, !.log = <<>>, !.und = 0])
                  ELSE Commit(Cur)
               /\ lastOp' = "sliced"
       ELSE /\ job' = NoJob
            /\ globalStatus' = ERROR
            /\ Commit(Cur)
            /\ lastOp' = "slice-failed"
    /\ UNCHANGED <<history, merges, now>>

\* The text blocks performOcrOnPages hands to the recognizer: <<page, block>> positions.
ocrCandidates(ps) ==
    UNION {{<<i, k>> : k \in {n \in DOMAIN ps[i].blocks :
                                   ps[i].blocks[n].type = "text" /\ ps[i].blocks[n].text = ""}}
           : i \in DOMAIN ps}

\* A variant in which the first failure ends the pass: later blocks are left as they are.
performOcrUntilFailure(ps, failing) ==
    [i \in DOMAIN ps |->
        [clonePage(ps[i]) EXCEPT !.blocks =
            [k \in DOMAIN ps[i].blocks |->
                IF /\ <<i, k>> \in ocrCandidates(ps)
                   /\ \A f \in failing : f[1] > i \/ (f[1] = i /\ f[2] > k)
                THEN [cloneBlock(ps[i].blocks[k]) EXCEPT !.text = "T"]
                ELSE cloneBlock(ps[i].blocks[k])]]]

\* performOcrOnPages on a deep copy; the recognizer throws for the blocks in failing.
performOcrOnPages(ps, failing) ==
    [i \in DOMAIN ps |->
        [clonePage(ps[i]) EXCEPT !.blocks =
            [k \in DOMAIN ps[i].blocks |->
                IF <<i, k>> \in ocrCandidates(ps) /\ <<i, k>> \notin failing
                THEN [cloneBlock(ps[i].blocks[k]) EXCEPT !.text = "T"]
                ELSE cloneBlock(ps[i].blocks[k])]]]

ocrCompletes ==
    /\ job.kind = "ocr" /\ job.phase = "pass"
    /\ \E failing \in SUBSET ocrCandidates(job.pages) :
          /\ Commit([Cur EXCEPT !.pages = performOcrOnPages(job.pages, failing),
                                !.log = <<>>, !.und = 0])
    /\ globalStatus' = READY
    /\ job' = NoJob
    /\ lastOp' = "ocr-done"
    /\ UNCHANGED <<history, merges, now>>

\* getWorker or the pass as a whole throws: the catch of handleRunOcr.
ocrFails ==
    /\ job.kind = "ocr" /\ job.phase = "pass"
    /\ globalStatus' = ERROR
    /\ job' = NoJob
    /\ lastOp' = "ocr-failed"
    /\ UNCHANGED <<pages, activePageIndex, selectedBlockIds, history,
                   debouncedGranularity, detections, merges, now, opLog, undoable>>

\* generatePptx resolves (ok) or throws (~ok).
exportSettles(ok) ==
    /\ job.kind = "export" /\ job.phase = "pass"
    /\ globalStatus' = IF ok THEN READY ELSE ERROR
    /\ job' = NoJob
    /\ lastOp' = IF ok THEN "export-done" ELSE "export-failed"
    /\ UNCHANGED <<pages, activePageIndex, selectedBlockIds, history,
                   debouncedGranularity, detections, merges, now, opLog, undoable>>

-----------------------------------------------------------------------------
(* The user interface: which handler a user can reach in which render *)

\* Neither the full-screen overlay nor the loading spinner is up.
Interactive == globalStatus # PROCESSING

\* pages.length > 0 and activePage: PreviewArea and ControlPanel are rendered.
EditorShown == HasPage(pages, activePageIndex)

\* The overlay layer of the detected blocks.
BlocksShown ==
    /\ EditorShown
    /\ activePage.status # PROCESSING
    /\ Len(activePage.blocks) > 0

\* handleMouseUp for a selection box from point a to point b, the container
\* shown at the page's own size.
dragSelection(page, a, b) ==
    LET left == Min(a[1], b[1])
        top == Min(a[2], b[2])
        width == Abs(b[1] - a[1])
        height == Abs(b[2] - a[2])
    IN IF width > 5 /\ height > 5
       THEN {c.id : c \in {d \in SeqToSet(page.blocks) :
                             /\ left < d.x + d.width /\ left + width > d.x
                             /\ top < d.y + d.height /\ top + height > d.y}}
       ELSE {}

\* The points a drag starts or ends at: on the top or bottom edge of the page,
\* at its corners or just left or right of a block.
dragPoints(page) ==
    LET xs == {0, page.width}
                \cup {d.x - 1 : d \in SeqToSet(page.blocks)}
                \cup {d.x + d.width + 1 : d \in SeqToSet(page.blocks)}
    IN {<<x, y>> : x \in xs \cap (0 .. page.width), y \in {0, page.height}}

\* A block's onMouseDown stops propagation: a drag starts on the background.
onBlock(page, pt) ==
    \E d \in SeqToSet(page.blocks) :
       /\ d.x <= pt[1] /\ pt[1] <= d.x + d.width
       /\ d.y <= pt[2] /\ pt[2] <= d.y + d.height

dragSelections(page, overlay) ==
    {dragSelection(page, a, b) :
        a \in {pt \in dragPoints(page) : ~(overlay /\ onBlock(page, pt))},
        b \in dragPoints(page)}

isSmall(b) == b.width < 50 \/ b.height < 30

\* One more step of the session.
Step(limit) == steps < limit /\ steps' = steps + 1 /\ lab' = lab

DropFile ==
    /\ Step(MaxSteps)
    /\ Len(pages) = 0 /\ Interactive
    /\ \E file \in Files : handleFileLoaded(file)

FileRead == Step(MaxSteps) /\ fileLoaded

FileReadFails == Step(MaxSteps) /\ fileLoadFailed

ClickReset ==
    /\ Step(MaxSteps)
    /\ EditorShown /\ Interactive
    /\ handleReset

MoveSlider ==
    /\ Step(MaxSteps)
    /\ EditorShown /\ Interactive
    /\ \E newVal \in Grans \ {currentGranularity(pages, activePageIndex)} :
          handleGranularityChange(newVal)

TurnPage ==
    /\ Step(MaxSteps)
    /\ EditorShown /\ Interactive
    /\ Len(pages) > 1
    /\ \E index \in {activePageIndex - 1, activePageIndex + 1} :
          /\ HasPage(pages, index)
          /\ setActivePageIndex(index)

ClickBlock ==
    /\ Step(MaxSteps)
    /\ BlocksShown /\ Interactive
    /\ \E id \in blockIds(activePage) : handleBlockSelect(id)

DragSelect ==
    /\ Step(MaxSteps)
    /\ EditorShown /\ Interactive
    /\ \E ids \in dragSelections(activePage, BlocksShown) : handleMultiSelect(ids)

ClickToggleType ==
    /\ Step(MaxSteps)
    /\ EditorShown /\ Interactive
    /\ \E b \in SeqToSet(activePage.blocks) :
          /\ (BlocksShown /\ ~isSmall(b)) \/ selectedBlockIds = {b.id}
          /\ handleToggleBlockType(activePageIndex, b.id)

ClickKeepBackground ==
    /\ Step(MaxSteps)
    /\ EditorShown /\ Interactive
    /\ \E b \in SeqToSet(activePage.blocks) :
          /\ selectedBlockIds = {b.id}
          /\ b.type = "text"
          /\ handleToggleBackground(activePageIndex, b.id)

ClickMerge ==
    /\ Step(MaxSteps)
    /\ EditorShown /\ Interactive
    /\ Cardinality(selectedBlockIds) > 1
    /\ handleMergeBlocks

ClickUndo ==
    /\ Step(MaxSteps)
    /\ EditorShown /\ Interactive
    /\ Len(history) > 0
    /\ handleUndo

ClickRunOcr ==
    /\ Step(MaxSteps)
    /\ EditorShown /\ Interactive
    /\ Len(activePage.blocks) > 0
    /\ handleRunOcr

ClickExport ==
    /\ Step(MaxSteps)
    /\ EditorShown /\ Interactive
    /\ Len(activePage.blocks) > 0
    /\ handleDownload

DebounceTimer == Step(MaxSteps) /\ debounceFires

DetectionReturns == Step(MaxSteps) /\ \E j \in DOMAIN detections : detectionSettles(j, TRUE)
DetectionThrows == Step(MaxSteps) /\ \E j \in DOMAIN detections : detectionSettles(j, FALSE)
CropReturns == Step(MaxSteps) /\ \E j \in DOMAIN merges : mergeCompletes(j)
CropThrows == Step(MaxSteps) /\ \E j \in DOMAIN merges : mergeFails(j)
SliceReturns == Step(MaxSteps) /\ sliceSettles(TRUE)
SliceThrows == Step(MaxSteps) /\ sliceSettles(FALSE)
OcrReturns == Step(MaxSteps) /\ ocrCompletes
OcrThrows == Step(MaxSteps) /\ ocrFails
ExportReturns == Step(MaxSteps) /\ exportSettles(TRUE)
ExportThrows == Step(MaxSteps) /\ exportSettles(FALSE)

Next ==
    \/ DropFile
    \/ FileRead
    \/ FileReadFails
    \/ ClickReset
    \/ MoveSlider
    \/ ClickBlock
    \/ DragSelect
    \/ ClickToggleType
    \/ ClickKeepBackground
    \/ ClickMerge
    \/ ClickUndo
    \/ ClickRunOcr
    \/ ClickExport
    \/ DebounceTimer
    \/ DetectionReturns
    \/ DetectionThrows
    \/ CropReturns
    \/ CropThrows
    \/ SliceReturns
    \/ SliceThrows
    \/ OcrReturns
    \/ OcrThrows
    \/ ExportReturns
    \/ ExportThrows

Spec == Init /\ [][Next]_vars

-----------------------------------------------------------------------------
(* An editing session on a detected page: the page model's operations      *)
(* (toggleBlockType, toggleBackground, select, merge, undo) called         *)
(* directly, one at a time, first with any argument, then a long run of    *)
(* toggles and a long run of undos.                                        *)

\* Document A, loaded and detected at the finest granularity.
InitEditing ==
    /\ pages = <<storeDetection(newPage(<<"A">>, 0, 1), "A", 1)>>
    /\ activePageIndex = 0
    /\ globalStatus = READY
    /\ selectedBlockIds = {}
    /\ history = <<>>
    /\ debouncedGranularity = 1
    /\ detections = <<>>
    /\ merges = <<>>
    /\ job = NoJob
    /\ now = 1
    /\ opLog = <<>>
    /\ undoable = 0
    /\ lastOp = "detected"
    /\ steps = 0
    /\ lab = NoLab

\* The ids a caller passes: those of the first two blocks, and one that names no block.
CallIds ==
    {activePage.blocks[i].id : i \in (DOMAIN activePage.blocks) \cap {1, 2}}
        \cup {<<"block", 99>>}

Idle == merges = <<>>

CallToggleType ==
    /\ Step(MaxVaried) /\ Idle
    /\ \E id \in CallIds : handleToggleBlockType(activePageIndex, id)

CallToggleBackground ==
    /\ Step(MaxVaried) /\ Idle
    /\ \E id \in CallIds : handleToggleBackground(activePageIndex, id)

CallSelect ==
    /\ Step(MaxVaried) /\ Idle
    /\ \E ids \in SUBSET CallIds : handleMultiSelect(ids)

CallMerge ==
    /\ Step(MaxVaried) /\ Idle
    /\ handleMergeBlocks

CallUndo ==
    /\ Step(MaxVaried) /\ Idle
    /\ handleUndo

EditCropReturns ==
    /\ Step(MaxVaried + FillSteps + DrainSteps)
    /\ \E j \in DOMAIN merges : mergeCompletes(j)

EditCropThrows ==
    /\ Step(MaxVaried + FillSteps + DrainSteps)
    /\ \E j \in DOMAIN merges : mergeFails(j)

FillToggle ==
    /\ steps >= MaxVaried /\ Step(MaxVaried + FillSteps) /\ Idle
    /\ lastOp \notin {"undo", "undo-empty"} \/ steps = MaxVaried
    /\ handleToggleBlockType(activePageIndex, activePage.blocks[1].id)

DrainUndo ==
    /\ steps >= MaxVaried /\ Step(MaxVaried + FillSteps + DrainSteps) /\ Idle
    /\ handleUndo

NextEditing ==
    \/ CallToggleType
    \/ CallToggleBackground
    \/ CallSelect
    \/ CallMerge
    \/ CallUndo
    \/ EditCropReturns
    \/ EditCropThrows
    \/ FillToggle
    \/ DrainUndo

SpecEditing == InitEditing /\ [][NextEditing]_vars

-----------------------------------------------------------------------------
(* A slider session on a detected page: bursts of slider moves, the expiry   *)
(* of useDebounce's timeout, the results of the detections it starts.  Each  *)
(* change of the value clears the pending timeout and arms a new one, so the *)
(* timeout that expires is the one the last change armed: its expiry is the  *)
(* end of the quiet period.  lab.in is the burst under way: the values the   *)
(* slider took on the READY page since the last expiry or detection result;  *)
(* lab.out is the burst that the last expiry ended.                          *)

InitSlider ==
    /\ pages = <<storeDetection(newPage(<<"A">>, 0, 1), "A", 1)>>
    /\ activePageIndex = 0
    /\ globalStatus = READY
    /\ selectedBlockIds = {}
    /\ history = <<>>
    /\ debouncedGranularity = 1
    /\ detections = <<>>
    /\ merges = <<>>
    /\ job = NoJob
    /\ now = 1
    /\ opLog = <<>>
    /\ undoable = 0
    /\ lastOp = "detected"
    /\ steps = 0
    /\ lab = [NoLab EXCEPT !.fn = "burst"]

SliderStep == steps < MaxSliderSteps /\ steps' = steps + 1

SlideTo ==
    /\ SliderStep
    /\ \E newVal \in SliderGrans \ {currentGranularity(pages, activePageIndex)} :
          /\ handleGranularityChange(newVal)
          /\ lab' = [lab EXCEPT !.in = IF activePage.status = READY
                                       THEN Append(@, newVal) ELSE <<>>]

QuietPeriodEnds ==
    /\ SliderStep
    /\ debounceFires
    /\ lab' = [lab EXCEPT !.in = <<>>, !.out = lab.in]

SliderDetectionReturns ==
    /\ SliderStep
    /\ \E j \in DOMAIN detections : detectionSettles(j, TRUE)
    /\ lab' = [lab EXCEPT !.in = <<>>]

SliderDetectionThrows ==
    /\ SliderStep
    /\ \E j \in DOMAIN detections : detectionSettles(j, FALSE)
    /\ lab' = [lab EXCEPT !.in = <<>>]

NextSlider ==
    \/ SlideTo
    \/ QuietPeriodEnds
    \/ SliderDetectionReturns
    \/ SliderDetectionThrows

SpecSlider == InitSlider /\ [][NextSlider]_vars

\* C19: a burst of granularity changes on the active READY page, each within
\* the quiet period of the one before, starts no detection while it lasts; the
\* end of the quiet period after its last change starts at most one, with the
\* last value of the burst.
C19_BurstCollapsed ==
    [][/\ lastOp' = "granularity" => detections' = detections
       /\ (lastOp' = "debounce" /\ activePage.status = READY /\ Len(lab.in) > 0) =>
             /\ debouncedGranularity' = lab.in[Len(lab.in)]
             /\ \/ detections' = detections
                \/ /\ Len(detections') = Len(detections) + 1
                   /\ detections'[Len(detections')].g = lab.in[Len(lab.in)]]_vars

\* A burst of three moves has ended and one detection, with its last value, is in flight.
C19_Witness ==
    /\ lastOp = "debounce"
    /\ Len(lab.out) = 3
    /\ Len(detections) = 1
    /\ detections[1].g = lab.out[3]

-----------------------------------------------------------------------------
(* A session on a document of two pages: page 1 (image A) detected at the   *)
(* finest granularity, page 2 (image B) not yet visited.  The user turns    *)
(* pages, moves the slider, selects, toggles, merges and undoes, at most    *)
(* MaxPageSteps times; timers, detections and crops end on their own, the   *)
(* detections with a result, the crops within the millisecond.              *)
(* lab.in remembers what the properties of such a session refer to: the     *)
(* page and value of the last slider move, the history at the last Merge    *)
(* click, the pages just before the last merge was stored.                  *)

InitPages ==
    /\ pages = <<storeDetection(newPage(<<"A", "B">>, 0, 1), "A", 1),
                 newPage(<<"A", "B">>, 1, 1)>>
    /\ activePageIndex = 0
    /\ globalStatus = READY
    /\ selectedBlockIds = {}
    /\ history = <<>>
    /\ debouncedGranularity = 1
    /\ detections = <<>>
    /\ merges = <<>>
    /\ job = NoJob
    /\ now = 1
    /\ opLog = <<>>
    /\ undoable = 0
    /\ lastOp = "detected"
    /\ steps = 0
    /\ lab = [fn |-> "session",
              in |-> [set |-> <<0, 0>>, historyAtMerge |-> <<>>, beforeMerged |-> <<>>],
              done |-> FALSE, out |-> <<>>]

PageSlide ==
    /\ steps < MaxPageSteps /\ steps' = steps + 1
    /\ EditorShown /\ Interactive
    /\ \E newVal \in {1, DefaultGranularity} \ {currentGranularity(pages, activePageIndex)} :
          /\ handleGranularityChange(newVal)
          /\ lab' = [lab EXCEPT !.in.set = <<activePageIndex, newVal>>]

PageMerge ==
    /\ steps < MaxPageSteps /\ steps' = steps + 1
    /\ EditorShown /\ Interactive
    /\ Cardinality(selectedBlockIds) > 1
    /\ handleMergeBlocks
    /\ lab' = [lab EXCEPT !.in.historyAtMerge = history]

PageCropReturns ==
    /\ \E j \in DOMAIN merges : mergeCompletes(j)
    /\ now' = now
    /\ steps' = steps
    /\ lab' = [lab EXCEPT !.in.beforeMerged = pages]

PageCropThrows ==
    /\ \E j \in DOMAIN merges : mergeFails(j)
    /\ UNCHANGED <<steps, lab>>

PageDebounce == debounceFires /\ UNCHANGED <<steps, lab>>

PageDetectionReturns ==
    /\ \E j \in DOMAIN detections : detectionSettles(j, TRUE)
    /\ UNCHANGED <<steps, lab>>

\* What the user does besides: within the budget of the session.
PageUser ==
    /\ steps < MaxPageSteps
    /\ \/ TurnPage
       \/ DragSelect
       \/ ClickToggleType
       \/ ClickUndo

NextPages ==
    \/ PageUser
    \/ PageSlide
    \/ PageMerge
    \/ PageCropReturns
    \/ PageCropThrows
    \/ PageDebounce
    \/ PageDetectionReturns

\* Every timer expires, every detection and every crop ends.
SpecPages ==
    /\ InitPages
    /\ [][NextPages]_vars
    /\ WF_vars(PageDebounce)
    /\ WF_vars(PageDetectionReturns)
    /\ WF_vars(PageCropReturns \/ PageCropThrows)

-----------------------------------------------------------------------------
(* The OCR service: preprocessImageForOcr and extractTextColor.  An image   *)
(* here is opaque: its width, its height and the sequence of its pixels'    *)
(* <<r, g, b>>, row by row.  Brightness is kept in thousandths, so that the *)
(* weighted sums are exact.                                                 *)

\* The sum of q[lo .. hi], by halves.
RECURSIVE SumRange(_, _, _)
SumRange(q, lo, hi) ==
    IF lo > hi THEN 0
    ELSE IF lo = hi THEN q[lo]
    ELSE LET mid == (lo + hi) \div 2
         IN SumRange(q, lo, mid) + SumRange(q, mid + 1, hi)

SumSeq(q) == SumRange(q, 1, Len(q))

\* Storing a number n / d into a Uint8ClampedArray: the nearest integer (the
\* even one on a tie), clamped to 0 .. 255.
Clamp8(n, d) ==
    IF n <= 0 THEN 0
    ELSE LET q == n \div d
             r == n % d
             nearest == IF 2 * r < d THEN q
                        ELSE IF 2 * r > d THEN q + 1
                        ELSE IF q % 2 = 0 THEN q ELSE q + 1
         IN Min(255, nearest)

\* data[i] * 0.299 + data[i + 1] * 0.587 + data[i + 2] * 0.114, times 1000
luma1000(px) == 299 * px[1] + 587 * px[2] + 114 * px[3]

\* ((v - min) / (max - min)) * 255 stored back, min and max in thousandths
stretch(v, min, max) == Clamp8((1000 * v - min) * 255, max - min)

\* histogram[Math.floor(data[i])]++
histogramOf(values) ==
    [v \in 0 .. 255 |-> Cardinality({i \in DOMAIN values : values[i] = v})]

\* A variant that lets a tie move the threshold up.
exceedsOrTies(num, den, maxNum, maxDen) == num * maxDen >= maxNum * den

\* varBetween > maxVar, both as fractions
exceeds(num, den, maxNum, maxDen) == num * maxDen > maxNum * den

\* One round of the loop over t of Otsu's method, on the loop's variables;
\* varBetween = wB * wF * (mB - mF)^2 = (sumB * wF - (sum - sumB) * wB)^2 / (wB * wF).
otsuStep(histogram, total, sum, s, t) ==
    IF s.stopped THEN s
    ELSE LET wB == s.wB + histogram[t]
             wF == total - wB
             sumB == s.sumB + t * histogram[t]
             diff == sumB * wF - (sum - sumB) * wB
         IN IF wB = 0 THEN [s EXCEPT !.wB = wB]
            ELSE IF wF = 0 THEN [s EXCEPT !.wB = wB, !.stopped = TRUE]
            ELSE IF exceeds(diff * diff, wB * wF, s.maxNum, s.maxDen)
            THEN [s EXCEPT !.wB = wB, !.sumB = sumB,
                           !.maxNum = diff * diff, !.maxDen = wB * wF, !.threshold = t]
            ELSE [s EXCEPT !.wB = wB, !.sumB = sumB]

\* The rounds lo .. hi in order, by halves; after the break no round is left.
RECURSIVE otsuLoop(_, _, _, _, _, _)
otsuLoop(histogram, total, sum, s, lo, hi) ==
    IF lo = hi THEN otsuStep(histogram, total, sum, s, lo)
    ELSE LET mid == (lo + hi) \div 2
             half == otsuLoop(histogram, total, sum, s, lo, mid)
         IN IF half.stopped THEN half
            ELSE otsuLoop(histogram, total, sum, half, mid + 1, hi)

otsuThreshold(histogram) ==
    LET total == SumSeq([k \in 1 .. 256 |-> histogram[k - 1]])
        sum == SumSeq([k \in 1 .. 256 |-> (k - 1) * histogram[k - 1]])
        start == [wB |-> 0, sumB |-> 0, maxNum |-> 0, maxDen |-> 1, threshold |-> 0,
                  stopped |-> FALSE]
    IN otsuLoop(histogram, total, sum, start, 0, 255).threshold

\* A variant that also whitens the pixels at the threshold.
binarizeFromThreshold(v, threshold) == IF v >= threshold THEN 255 ELSE 0

\* data[i] > threshold ? 255 : 0
binarize(v, threshold) == IF v > threshold THEN 255 ELSE 0

\* A variant that knows the light page with a dark centre only.
shouldInvertLightPagesOnly(w, h, values, globalSum) ==
    /\ SumSeq(values) > 180 * w * h
    /\ LET centre == {k \in 1 .. w * h :
                        /\ (k - 1) % w >= w \div 4 /\ (k - 1) % w < (3 * w) \div 4
                        /\ (k - 1) \div w >= h \div 4 /\ (k - 1) \div w < (3 * h) \div 4}
       IN \E k \in centre : values[k] < 160

\* Light text on dark: the automatic inversion's decision, on the stretched
\* values and the sum of the brightnesses before stretching.
shouldInvert(w, h, values, globalSum) ==
    LET n == w * h
        at(x, y) == values[y * w + x + 1]
        borderSize == Min(5, Min(w, h) \div 4)
        border == {<<x, y>> \in (0 .. w - 1) \X (0 .. h - 1) :
                      \/ y < borderSize \/ y >= h - borderSize
                      \/ x < borderSize \/ x >= w - borderSize}
        centre == ((w \div 4) .. ((3 * w) \div 4 - 1)) \X ((h \div 4) .. ((3 * h) \div 4 - 1))
        sumOver(S) == SumSeq([k \in 1 .. n |->
                        IF <<(k - 1) % w, (k - 1) \div w>> \in S THEN values[k] ELSE 0])
        borderLight == IF border = {} THEN TRUE
                       ELSE sumOver(border) > 180 * Cardinality(border)
        centreDark == IF centre = {} THEN globalSum < 160000 * n
                      ELSE sumOver(centre) < 160 * Cardinality(centre)
    IN \/ globalSum < 128000 * n
       \/ borderLight /\ centreDark

\* The brightness of each pixel, as the grayscale loop computes it.
brightnessOf(img) == [i \in DOMAIN img.data |-> luma1000(img.data[i])]

\* The grayscale values after the contrast stretch (left as they are when max = min).
stretchedOf(img) ==
    LET idx == DOMAIN img.data
        brightness == brightnessOf(img)
        min == SetMin({brightness[i] : i \in idx})
        max == SetMax({brightness[i] : i \in idx})
        gray == [i \in idx |-> Clamp8(brightness[i], 1000)]
    IN IF max > min
       THEN [i \in idx |-> stretch(gray[i], min, max)]
       ELSE gray

\* The decision of the smart inversion for an image.
inverts(img) ==
    shouldInvert(img.width, img.height, stretchedOf(img), SumSeq(brightnessOf(img)))

preprocessImageForOcr(img) ==
    LET idx == DOMAIN img.data
        stretched == stretchedOf(img)
        oriented == IF inverts(img)
                    THEN [i \in idx |-> 255 - stretched[i]]
                    ELSE stretched
        threshold == otsuThreshold(histogramOf(oriented))
    IN [img EXCEPT !.data = [i \in idx |->
            LET v == binarize(oriented[i], threshold) IN <<v, v, v>>]]

\* Math.round(c / Q) * Q with Q = 10
quantize(c) == ((c + 5) \div 10) * 10

quantized(px) == <<quantize(px[1]), quantize(px[2]), quantize(px[3])>>

\* The keys of colorCounts in insertion order: the quantized colours in the
\* order of their first pixel.
RECURSIVE firstSeen(_, _)
firstSeen(pixels, seen) ==
    IF pixels = <<>> THEN seen
    ELSE LET c == quantized(pixels[1])
         IN firstSeen(Tail(pixels),
                      IF \E k \in DOMAIN seen : seen[k] = c THEN seen ELSE Append(seen, c))

\* sortedColors: by count, descending; Array.prototype.sort is stable.
sortedColors(pixels) ==
    LET keys == firstSeen(pixels, <<>>)
        count(c) == Cardinality({i \in DOMAIN pixels : quantized(pixels[i]) = c})
        before(j, k) == \/ count(keys[j]) > count(keys[k])
                        \/ count(keys[j]) = count(keys[k]) /\ j < k
        rank(k) == 1 + Cardinality({j \in DOMAIN keys : before(j, k)})
    IN [r \in DOMAIN keys |-> keys[CHOOSE k \in DOMAIN keys : rank(k) = r]]

distance2(c, bg) ==
    (c[1] - bg[1]) * (c[1] - bg[1]) + (c[2] - bg[2]) * (c[2] - bg[2])
        + (c[3] - bg[3]) * (c[3] - bg[3])

\* A variant that tallies every pixel, whatever its alpha.
countedWithTransparent(pixels) == pixels

\* if (data[i + 3] < 50) continue: the pixels that are tallied.
counted(pixels) == SelectSeq(pixels, LAMBDA px : px[4] >= 50)

\* textRgb: the most frequent colour farther than MIN_DISTANCE = 60 from the
\* background, else black or white against the background's brightness.
textRgb(pixels) ==
    LET sorted == sortedColors(counted(pixels))
        bg == sorted[1]
        far == {i \in 2 .. Len(sorted) : distance2(sorted[i], bg) > 60 * 60}
    IN IF sorted = <<>> THEN <<0, 0, 0>>
       ELSE IF far # {} THEN sorted[SetMin(far)]
       ELSE IF luma1000(bg) > 128000 THEN <<0, 0, 0>> ELSE <<255, 255, 255>>

\* n.toString(16), most significant digit first
RECURSIVE toHex(_)
toHex(n) == IF n < 16 THEN <<n>> ELSE Append(toHex(n \div 16), n % 16)

\* "#" + ((1 << 24) + (r << 16) + (g << 8) + b).toString(16).slice(1): the digits after the "#"
hexColor(rgb) == Tail(toHex(16777216 + rgb[1] * 65536 + rgb[2] * 256 + rgb[3]))

extractTextColor(pixels) == hexColor(textRgb(pixels))

-----------------------------------------------------------------------------
(* Runs of the block detector: detectBlocks on test rasters, at two          *)
(* granularities each.                                                       *)

\* Colours around the ink threshold: mean 229, mean 230 (two ways), and black.
Inks == {Black, <<229, 229, 229>>, <<230, 230, 230>>, <<231, 229, 230>>}

\* Marks, in canvas pixels: single pixels in a corner, on an edge and inside, a
\* bar, and a pixel in the last column and row of the smallest canvas.
Marks == {<<0, 0, 0, 0>>, <<4, 3, 4, 3>>, <<9, 4, 9, 4>>, <<2, 2, 5, 2>>, <<11, 7, 11, 7>>}

\* Rasters of even and odd width and height, at least 2 x 2.
TestRasters ==
    {Painting(w, h, rects, ink, White) :
        w \in {24, 25}, h \in {16, 17},
        rects \in {r \in SUBSET Marks : Cardinality(r) <= MaxMarks},
        ink \in Inks}

DetectInputs ==
    {[img |-> img, g1 |-> g1, g2 |-> g2] :
        img \in TestRasters,
        g1 \in 1 .. MaxDetectGran,
        g2 \in 1 .. MaxDetectGran}

InitDetector ==
    /\ pages = <<>>
    /\ activePageIndex = 0
    /\ globalStatus = IDLE
    /\ selectedBlockIds = {}
    /\ history = <<>>
    /\ debouncedGranularity = DefaultGranularity
    /\ detections = <<>>
    /\ merges = <<>>
    /\ job = NoJob
    /\ now = 0
    /\ opLog = <<>>
    /\ undoable = 0
    /\ lastOp = "mount"
    /\ steps = 0
    /\ \E input \in {d \in DetectInputs : d.g1 < d.g2} :
          lab = [fn |-> "detectBlocks", in |-> input, done |-> FALSE, out |-> <<>>]

\* Everything but lab.
appVars == <<pages, activePageIndex, globalStatus, selectedBlockIds, history,
             debouncedGranularity, detections, merges, job, now, opLog, undoable,
             lastOp, steps>>

RunDetector ==
    /\ lab.fn = "detectBlocks" /\ ~lab.done
    /\ lab' = [lab EXCEPT !.done = TRUE,
                          !.out = <<detectBlocks(lab.in.img, lab.in.g1),
                                    detectBlocks(lab.in.img, lab.in.g2)>>]
    /\ UNCHANGED appVars

NextDetector == RunDetector

SpecDetector == InitDetector /\ [][NextDetector]_vars

Detected == lab.fn = "detectBlocks" /\ lab.done

\* C12: for a fixed raster and granularities g1 < g2, detectBlocks with g2
\* returns no more blocks than with g1.
C12_CoarserNeverMoreBlocks ==
    Detected => Len(lab.out[2]) <= Len(lab.out[1])

\* C13: every block detectBlocks returns has width > 0 and height > 0 and lies
\* inside the source raster, for every source size and granularity.
C13_BlocksInsideRaster ==
    Detected =>
       \A n \in {1, 2} : \A i \in DOMAIN lab.out[n] :
          LET b == lab.out[n][i]
          IN /\ b.width > 0 /\ b.height > 0
             /\ b.x >= 0 /\ b.y >= 0
             /\ b.x + b.width <= lab.in.img.width
             /\ b.y + b.height <= lab.in.img.height

\* A block was found that reaches the last column and row of an odd-sized raster's canvas.
C13_Witness ==
    /\ Detected
    /\ lab.in.img.width = 25 /\ lab.in.img.height = 17
    /\ \E i \in DOMAIN lab.out[2] :
          /\ lab.out[2][i].x + lab.out[2][i].width = 24
          /\ lab.out[2][i].y + lab.out[2][i].height = 16

\* No pixel whose mean of red, green and blue is below 230.
NoInk(img) == \A idx \in DOMAIN img.data : brightness3(img.data[idx]) >= 3 * 230

SquareAround(img, k) ==
    LET w == CanvasW(img)
        inks == {i \in DOMAIN img.data : brightness3(img.data[i]) < 3 * 230}
    IN {j \in DOMAIN img.data :
          \E i \in inks : /\ Abs((j % w) - (i % w)) <= k
                          /\ Abs((j \div w) - (i \div w)) <= k}

\* C23: after dilation with half-width k = max(2, floor(granularity * 1.5)),
\* the foreground of the binary map is exactly the set of canvas pixels whose
\* row and column both differ by at most k from those of some ink pixel, the
\* same in all four directions.
C23_DilationIsSquare ==
    Detected =>
        \A g \in {lab.in.g1, lab.in.g2} :
            binaryMap(lab.in.img, g) = SquareAround(lab.in.img, Max(2, (3 * g) \div 2))

-----------------------------------------------------------------------------
(* Runs of the OCR service: Otsu's threshold on two-level histograms, the   *)
(* preprocessor on small black-and-white images, extractTextColor on        *)
(* swatches of two colours, and the OCR pass on collections of two pages.   *)

\* Grey levels of the two modes of a histogram.
Levels == {0, 20, 100, 128, 229, 230, 255}

OtsuInputs ==
    {[low |-> a, high |-> b, nLow |-> na, nHigh |-> nb] :
        a \in Levels, b \in Levels, na \in 1 .. MaxModeCount, nb \in 1 .. MaxModeCount}

twoLevel(in) ==
    [v \in 0 .. 255 |-> IF v = in.low THEN in.nLow ELSE IF v = in.high THEN in.nHigh ELSE 0]

\* Opaque images of black and white pixels, 1 x 1 to 3 x 2.
BinaryImages ==
    UNION {{[width |-> d[1], height |-> d[2], data |-> px] :
               px \in [1 .. d[1] * d[2] -> {Black, White}]}
           : d \in {<<1, 1>>, <<2, 2>>, <<3, 2>>, <<2, 3>>}}

Negative(img) ==
    [img EXCEPT !.data = [i \in DOMAIN img.data |->
        <<255 - img.data[i][1], 255 - img.data[i][2], 255 - img.data[i][3]>>]]

Grey(v) == <<v, v, v>>

\* Grey images: uniform ones up to 4 x 4, and small ones of two or three levels.
GreyImages ==
    {[width |-> d[1], height |-> d[2], data |-> [i \in 1 .. d[1] * d[2] |-> Grey(v)]] :
        d \in {<<1, 1>>, <<3, 2>>, <<4, 4>>}, v \in {0, 30, 127, 128, 220, 255}}
    \cup UNION {{[width |-> d[1], height |-> d[2], data |-> px] :
                    px \in [1 .. d[1] * d[2] -> {Grey(pair[1]), Grey(pair[2])}]}
                : d \in {<<2, 1>>, <<3, 2>>},
                  pair \in {<<200, 220>>, <<30, 220>>, <<30, 100>>, <<100, 140>>}}
    \cup {[width |-> 2, height |-> 2, data |-> px] :
            px \in [1 .. 4 -> {Grey(30), Grey(128), Grey(220)}]}

Red == <<255, 0, 0>>

SwatchColors == {White, Black, Red, <<250, 250, 250>>, <<200, 0, 0>>, <<0, 0, 255>>,
                 <<128, 128, 128>>}

\* Alpha values around the cut at 50.
Alphas == {0, 49, 50, 255}

\* SwatchSize pixels <<r, g, b, a>>: k of colour fg and alpha a, the rest opaque
\* and of colour bg; the fg pixels first or last.
Swatch(bg, fg, k, fgFirst, a) ==
    [i \in 1 .. SwatchSize |->
        IF (fgFirst /\ i <= k) \/ (~fgFirst /\ i > SwatchSize - k)
        THEN fg \o <<a>> ELSE bg \o <<255>>]

Swatches ==
    {Swatch(bg, fg, k, fgFirst, a) :
        bg \in SwatchColors, fg \in SwatchColors, k \in 0 .. MaxTextPixels,
        fgFirst \in BOOLEAN, a \in Alphas}

\* A page of source A whose first two blocks are, each: a text block without
\* text, a text block with text, or an image block.
BlockKinds == {"todo", "done", "image"}

ocrPage(index, kinds) ==
    [newPage(<<"A", "A">>, index, 1) EXCEPT
        !.status = READY,
        !.processedGranularity = 1,
        !.blocks = [k \in DOMAIN DetectTable["A"][1] |->
            IF k > 2 \/ kinds[k] = "todo" THEN DetectTable["A"][1][k]
            ELSE IF kinds[k] = "done" THEN [DetectTable["A"][1][k] EXCEPT !.text = "T"]
            ELSE [DetectTable["A"][1][k] EXCEPT !.type = "image"]]]

OcrInputs ==
    UNION {{[pages |-> <<ocrPage(0, k1), ocrPage(1, k2)>>, failing |-> f] :
               f \in {g \in SUBSET ocrCandidates(<<ocrPage(0, k1), ocrPage(1, k2)>>) :
                         Cardinality(g) <= MaxFailing}}
           : k1 \in [1 .. 2 -> BlockKinds], k2 \in [1 .. 2 -> BlockKinds]}

InitOcr ==
    /\ pages = <<>>
    /\ activePageIndex = 0
    /\ globalStatus = IDLE
    /\ selectedBlockIds = {}
    /\ history = <<>>
    /\ debouncedGranularity = DefaultGranularity
    /\ detections = <<>>
    /\ merges = <<>>
    /\ job = NoJob
    /\ now = 0
    /\ opLog = <<>>
    /\ undoable = 0
    /\ lastOp = "mount"
    /\ steps = 0
    /\ \/ \E input \in {o \in OtsuInputs : o.low < o.high} :
             lab = [fn |-> "otsu", in |-> input, done |-> FALSE, out |-> <<>>]
       \/ \E input \in BinaryImages :
             lab = [fn |-> "preprocess", in |-> input, done |-> FALSE, out |-> <<>>]
       \/ \E input \in GreyImages :
             lab = [fn |-> "polarity", in |-> input, done |-> FALSE, out |-> <<>>]
       \/ \E input \in Swatches :
             lab = [fn |-> "textColor", in |-> input, done |-> FALSE, out |-> <<>>]
       \/ \E input \in OcrInputs :
             lab = [fn |-> "ocrPass", in |-> input, done |-> FALSE, out |-> <<>>]

RunOtsu ==
    /\ lab.fn = "otsu" /\ ~lab.done
    /\ lab' = [lab EXCEPT !.done = TRUE, !.out = otsuThreshold(twoLevel(lab.in))]
    /\ UNCHANGED appVars

\* The preprocessor once, and again on its own output.
RunPreprocess ==
    /\ lab.fn = "preprocess" /\ ~lab.done
    /\ lab' = [lab EXCEPT !.done = TRUE,
                          !.out = <<preprocessImageForOcr(lab.in),
                                    preprocessImageForOcr(preprocessImageForOcr(lab.in))>>]
    /\ UNCHANGED appVars

\* The preprocessor on a grey image, with the decision its inversion step takes.
RunPolarity ==
    /\ lab.fn = "polarity" /\ ~lab.done
    /\ lab' = [lab EXCEPT !.done = TRUE,
                          !.out = [inverted |-> inverts(lab.in),
                                   image |-> preprocessImageForOcr(lab.in)]]
    /\ UNCHANGED appVars

RunTextColor ==
    /\ lab.fn = "textColor" /\ ~lab.done
    /\ lab' = [lab EXCEPT !.done = TRUE, !.out = extractTextColor(lab.in)]
    /\ UNCHANGED appVars

RunOcrPass ==
    /\ lab.fn = "ocrPass" /\ ~lab.done
    /\ lab' = [lab EXCEPT !.done = TRUE,
                          !.out = performOcrOnPages(lab.in.pages, lab.in.failing)]
    /\ UNCHANGED appVars

NextOcr == RunOtsu \/ RunPreprocess \/ RunPolarity \/ RunTextColor \/ RunOcrPass

SpecOcr == InitOcr /\ [][NextOcr]_vars

Thresholded == lab.fn = "otsu" /\ lab.done
Preprocessed == lab.fn = "preprocess" /\ lab.done
TextColored == lab.fn = "textColor" /\ lab.done
OcrPassed == lab.fn = "ocrPass" /\ lab.done
Polarized == lab.fn = "polarity" /\ lab.done

\* C15: on a histogram with two modes a < b, Otsu's threshold lies strictly
\* between them: a < t < b (so with half the pixels at 20 and half at 230,
\* strictly between 20 and 230).
C15_ThresholdStrictlyBetween ==
    Thresholded => lab.in.low < lab.out /\ lab.out < lab.in.high

\* C15, as the code has it: the threshold is the lower mode itself, a <= t < b,
\* and since a pixel is white when it exceeds the threshold, the two modes
\* still fall on different sides.
C15_ThresholdIsLowerMode ==
    Thresholded =>
        /\ lab.out = lab.in.low
        /\ lab.out < lab.in.high
        /\ binarize(lab.in.low, lab.out) = 0
        /\ binarize(lab.in.high, lab.out) = 255

C15_Witness ==
    /\ Thresholded
    /\ lab.in.low = 20 /\ lab.in.high = 230 /\ lab.in.nLow = lab.in.nHigh
    /\ lab.out = 20

BlackCount(img) == Cardinality({i \in DOMAIN img.data : img.data[i] = Black})

\* C16: the preprocessor returns an opaque black-and-white image as it is,
\* and so applying it twice gives what applying it once gives.
C16_BinaryImageUnchanged ==
    Preprocessed => lab.out[1] = lab.in /\ lab.out[2] = lab.out[1]

\* C16, as the code has it: the result is the image or its negative; an image
\* with more black than white comes back as its negative, an all-white one as
\* it is, and a second application never leaves black in the majority.
C16_ImageOrNegative ==
    Preprocessed =>
        /\ lab.out[1] \in {lab.in, Negative(lab.in)}
        /\ 2 * BlackCount(lab.in) > Len(lab.in.data) => lab.out[1] = Negative(lab.in)
        /\ BlackCount(lab.in) = 0 => lab.out[1] = lab.in
        /\ lab.out[2] \in {lab.out[1], Negative(lab.out[1])}

C16_Witness ==
    /\ Preprocessed
    /\ lab.in.width = 3 /\ lab.in.height = 2
    /\ BlackCount(lab.in) = 4
    /\ lab.out[1] = Negative(lab.in)
    /\ lab.out[2] = lab.out[1]

\* The channels of a colour written as six hexadecimal digits.
Channels(hex) == <<16 * hex[1] + hex[2], 16 * hex[3] + hex[4], 16 * hex[5] + hex[6]>>

NineToOne(pixels, bg, fg) ==
    /\ Cardinality({i \in DOMAIN pixels : pixels[i] = fg \o <<255>>}) = 1
    /\ \A i \in DOMAIN pixels : pixels[i] \in {bg \o <<255>>, fg \o <<255>>}

\* C17: on a block that is nine parts white (255, 255, 255) and one part red
\* (255, 0, 0), extractTextColor returns red: six hexadecimal digits whose red
\* channel dominates and whose channels are those of the selected quantized
\* colour, each within 0 .. 255.
C17_RedOnWhiteIsRed ==
    (TextColored /\ NineToOne(lab.in, White, Red)) =>
        /\ Len(lab.out) = 6
        /\ Channels(lab.out)[1] > Channels(lab.out)[2]
        /\ Channels(lab.out)[1] > Channels(lab.out)[3]
        /\ \A c \in 1 .. 3 :
              /\ textRgb(lab.in)[c] \in 0 .. 255
              /\ Channels(lab.out)[c] = textRgb(lab.in)[c]

\* C18: when recognition fails on some text blocks, those blocks stay without
\* text, every other text block that lacked text is recognized, on the same
\* page and on later pages, every other block is as it was, and the pass
\* returns the whole collection.
C18_FailureSkipsOnlyThatBlock ==
    OcrPassed =>
        /\ DOMAIN lab.out = DOMAIN lab.in.pages
        /\ \A i \in DOMAIN lab.in.pages :
              /\ DOMAIN lab.out[i].blocks = DOMAIN lab.in.pages[i].blocks
              /\ \A k \in DOMAIN lab.in.pages[i].blocks :
                    LET before == lab.in.pages[i].blocks[k]
                        after == lab.out[i].blocks[k]
                    IN IF before.type = "text" /\ before.text = ""
                       THEN IF <<i, k>> \in lab.in.failing
                            THEN after = before
                            ELSE after.text # "" /\ after.id = before.id
                       ELSE after = before

C18_Witness ==
    /\ OcrPassed
    /\ lab.in.failing = {<<1, 1>>}
    /\ lab.out[1].blocks[1].text = ""
    /\ lab.in.pages[1].blocks[2].text = "" /\ lab.out[1].blocks[2].text # ""
    /\ lab.in.pages[2].blocks[1].text = "" /\ lab.out[2].blocks[1].text # ""

Uniform(img, v) == \A i \in DOMAIN img.data : img.data[i] = Grey(v)

\* C21: the polarity step inverts a uniform image of brightness 30 and does
\* not invert a uniform image of brightness 220; the preprocessor's output is
\* all white in both cases.
C21_UniformPolarity ==
    Polarized =>
        /\ Uniform(lab.in, 30) => lab.out.inverted /\ Uniform(lab.out.image, 255)
        /\ Uniform(lab.in, 220) => ~lab.out.inverted /\ Uniform(lab.out.image, 255)

C21_Witness ==
    /\ Polarized
    /\ lab.in.width = 4 /\ lab.in.height = 4
    /\ Uniform(lab.in, 30)
    /\ lab.out.inverted
    /\ Uniform(lab.out.image, 255)

\* The pixels of the border frame and of the central region, as indices.
BorderOf(w, h) ==
    LET borderSize == Min(5, Min(w, h) \div 4)
    IN {k \in 1 .. w * h :
           LET x == (k - 1) % w
               y == (k - 1) \div w
           IN \/ y < borderSize \/ y >= h - borderSize
              \/ x < borderSize \/ x >= w - borderSize}

CentreOf(w, h) ==
    {k \in 1 .. w * h :
        LET x == (k - 1) % w
            y == (k - 1) \div w
        IN /\ x >= w \div 4 /\ x < (3 * w) \div 4
           /\ y >= h \div 4 /\ y < (3 * h) \div 4}

\* The inversion rule read on the stretched values alone; an empty border
\* counts as white and an empty centre as the whole image.
StretchedRule(img) ==
    LET v == stretchedOf(img)
        n == Len(v)
        sumOver(S) == SumSeq([k \in 1 .. n |-> IF k \in S THEN v[k] ELSE 0])
        border == BorderOf(img.width, img.height)
        centre == CentreOf(img.width, img.height)
        borderLight == border = {} \/ sumOver(border) > 180 * Cardinality(border)
        centreDark == IF centre = {} THEN SumSeq(v) < 160 * n
                      ELSE sumOver(centre) < 160 * Cardinality(centre)
    IN SumSeq(v) < 128 * n \/ (borderLight /\ centreDark)

\* C24: the preprocessor inverts if and only if the global mean of the
\* contrast-stretched values is below 128, or the stretched border mean is
\* above 180 and the stretched centre mean is below 160.
C24_DecidedOnStretchedValues ==
    Polarized => (lab.out.inverted <=> StretchedRule(lab.in))

\* The pixels of alpha 50 and more, made fully opaque.
Visible(pixels) ==
    LET seen == SelectSeq(pixels, LAMBDA px : px[4] >= 50)
    IN [i \in DOMAIN seen |-> <<seen[i][1], seen[i][2], seen[i][3], 255>>]

\* No tallied colour is farther than 60 from the most frequent one.
NoSecondPeak(pixels) ==
    \A i \in DOMAIN pixels :
        distance2(quantized(pixels[i]), sortedColors(pixels)[1]) <= 60 * 60

\* C22: on a block whose opaque pixels show no quantized colour farther than
\* 60 from the most frequent one, extractTextColor returns #000000 when the
\* luma of that background is above 128 and #ffffff otherwise; and the pixels
\* of alpha below 50 never influence the result.
C22_UniformBlockFallback ==
    TextColored =>
        /\ lab.out = extractTextColor(Visible(lab.in))
        /\ (Visible(lab.in) # <<>> /\ NoSecondPeak(Visible(lab.in))) =>
              lab.out = IF luma1000(sortedColors(Visible(lab.in))[1]) > 128000
                        THEN <<0, 0, 0, 0, 0, 0>>
                        ELSE <<15, 15, 15, 15, 15, 15>>

\* Half of the block is transparent red, the opaque half is black: white text.
C22_Witness ==
    /\ TextColored
    /\ Cardinality({i \in DOMAIN lab.in : lab.in[i] = <<255, 0, 0, 49>>}) = 5
    /\ \E i \in DOMAIN lab.in : lab.in[i] = <<0, 0, 0, 255>>
    /\ lab.out = <<15, 15, 15, 15, 15, 15>>

-----------------------------------------------------------------------------
(* Properties of the application (Spec) *)

\* The pages of every page collection the application holds: the live one, the
\* history's snapshots, the working copy of Run OCR / Export.
HeldPages ==
    SeqToSet(pages) \cup SeqToSet(job.pages)
        \cup UNION {SeqToSet(history[i]) : i \in DOMAIN history}

Mismatch(p) == p.status = READY /\ p.processedGranularity # p.granularity

Mismatched == {<<p.id, p.granularity, p.processedGranularity>> : p \in {q \in HeldPages : Mismatch(q)}}

\* C3, as the spec states it: in every reachable state, a page whose status is
\* READY has processedGranularity equal to its granularity.
C3_ReadyIsProcessed ==
    \A i \in DOMAIN pages : ~Mismatch(pages[i])

\* C3, as the code has it: only the slider's handler (handleGranularityChange)
\* makes a READY page whose processedGranularity differs from its granularity;
\* every other step (a detection stored by the effect, Run OCR or Export, an
\* edit, an undo, an OCR write-back) creates no such page, in the live
\* collection, a snapshot or a working copy: it at most carries one on.
C3_OnlySliderUnsettles ==
    [][lastOp' # "granularity" => Mismatched' \subseteq Mismatched]_vars

\* The slider has just left a READY page with the blocks of another granularity.
C3_Witness ==
    /\ lastOp = "granularity"
    /\ \E i \in DOMAIN pages : Mismatch(pages[i])

\* The pages with a detectBlocks call in flight, one entry per call.
DetectingEffect == [j \in DOMAIN detections |-> detections[j].pageId]
DetectingJob ==
    IF job.phase = "detect" THEN <<PageAt(job.pages, job.i).id>> ELSE <<>>
Detecting == DetectingEffect \o DetectingJob

\* C4: at no time are two detections in flight for the same page, whether
\* started by the processing effect, by Run OCR or by Export.
C4_OneDetectionPerPage ==
    \A j, k \in DOMAIN Detecting : j # k => Detecting[j] # Detecting[k]

\* The page a detection was started for is gone, replaced by another document's,
\* or has had its granularity changed since.
Stale(d) ==
    \/ ~HasPage(pages, d.pageIndex)
    \/ PageAt(pages, d.pageIndex).id # d.pageId
    \/ PageAt(pages, d.pageIndex).granularity # d.pageGranularity

\* C5: a detection result that is stale when it arrives (started before a reset
\* or a new load, or before a later granularity change of its page) is
\* discarded: it changes no page's blocks, status or granularity.
C5_StaleResultDiscarded ==
    [][\A j \in DOMAIN detections :
          (/\ lastOp' = "detected"
           /\ detections' = RemoveAt(detections, j)
           /\ Stale(detections[j])) => pages' = pages]_vars

\* A detection or an OCR pass is in flight for the page.
Busy(page) ==
    \/ \E j \in DOMAIN detections : detections[j].pageId = page.id
    \/ job.kind = "ocr"
    \/ job.kind = "export" /\ job.phase = "detect"

\* C6: between the start and the completion of a detection or OCR pass on a
\* page, no undo and no merge modifies the page collection.
C6_NoEditWhileBusy ==
    [][(/\ lastOp' \in {"undo", "merged"}
        /\ EditorShown
        /\ Busy(activePage)) => pages' = pages]_vars

Box(b) == [x |-> b.x, y |-> b.y, width |-> b.width, height |-> b.height]

\* What C7 says of the page p before and q after a merge of the blocks with the ids in selected.
MergeOutcome(p, q, selected) ==
    LET mergedBlocks == SelectSeq(p.blocks, LAMBDA b : b.id \in selected)
        others == SelectSeq(p.blocks, LAMBDA b : b.id \notin selected)
        k == Len(mergedBlocks)
        n == Len(p.blocks)
    IN /\ k >= 2
       /\ Len(q.blocks) = n - k + 1
       /\ SubSeq(q.blocks, 1, n - k) = others
       /\ LET newBlock == q.blocks[n - k + 1]
          IN /\ newBlock.type = "image"
             /\ newBlock.id \notin blockIds(p)
             /\ Box(newBlock) = unionBox(mergedBlocks)

\* C7: when a merge of k >= 2 selected blocks succeeds, the page afterwards has
\* exactly one new block, of kind image, whose rectangle is the union bounding
\* box of the merged blocks, placed last; the merged blocks are gone, the
\* others keep their order, the count is n - k + 1 and the selection is empty.
C7_MergeOutcome ==
    [][\A j \in DOMAIN merges :
          (/\ lastOp' = "merged"
           /\ merges' = RemoveAt(merges, j)
           /\ HasPage(pages, merges[j].pageIndex))
          => /\ MergeOutcome(PageAt(pages, merges[j].pageIndex),
                             PageAt(pages', merges[j].pageIndex), merges[j].selected)
             /\ selectedBlockIds' = {}]_vars

\* The blocks of every page.
AllBlocks == UNION {SeqToSet(pages[i].blocks) : i \in DOMAIN pages}

\* C10, as the spec states it: a block of kind image never has preserveBackground true.
C10_ImageNeverKeepsBackground ==
    \A b \in AllBlocks : b.type = "image" => b.preserveBackground # "true"

\* C10, as the code has it: toggleBlockType sets preserveBackground to false on
\* the way from image to text, and leaves it as it is on the way from text to
\* image, so that an image block can carry preserveBackground true.
C10_ClearedOnReturnToText ==
    [][lastOp' = "toggle-type" =>
          \A i \in DOMAIN pages : \A k \in DOMAIN pages[i].blocks :
             LET b == pages[i].blocks[k]
                 c == pages'[i].blocks[k]
             IN /\ (b.type = "image" /\ c.type = "text") => c.preserveBackground = "false"
                /\ (b.type = "text" /\ c.type = "image") =>
                       c.preserveBackground = b.preserveBackground]_vars

\* A text block with its background kept has just been toggled to image.
C10_Witness ==
    /\ lastOp = "toggle-type"
    /\ \E b \in AllBlocks : b.type = "image" /\ b.preserveBackground = "true"

-----------------------------------------------------------------------------
(* Properties of an editing session (SpecEditing).  opLog holds, oldest      *)
(* first, the page collection as it was before each edit not yet undone;     *)
(* undoable counts those of them a history of HistoryLimit entries reaches.  *)

\* C1: after a sequence of toggleBlockType, toggleBackground and merge
\* operations, each run to completion before the next starts and with no
\* detection or OCR in between, an undo restores the page collection exactly as
\* it was before the most recent operation, and k undos in a row (k up to the
\* number of operations, at most HistoryLimit) restore it as it was before the
\* k-th most recent one.  An operation is a call that edits: a merge request
\* with fewer than two selected blocks is none.
C1_UndoRestores ==
    [][(lastOp' = "undo" /\ undoable > 0) => pages' = opLog[Len(opLog)]]_vars

\* HistoryLimit edits, a merge among them, have been undone one after the other,
\* down to the page as it was detected.
C1_Witness ==
    /\ lastOp = "undo"
    /\ history = <<>>
    /\ undoable = 0
    /\ steps >= 2 * HistoryLimit + 2
    /\ now = MaxNow
    /\ pages[1].blocks = DetectTable["A"][1]

\* C2: the history never holds more than HistoryLimit snapshots: it always is
\* the most recent pushed snapshots that were not undone, in push order, and a
\* push onto a full history drops the oldest.
C2_HistoryIsRecentPushes ==
    /\ Len(history) <= HistoryLimit
    /\ Len(history) = undoable
    /\ undoable <= Len(opLog)
    /\ history = SubSeq(opLog, Len(opLog) - undoable + 1, Len(opLog))

\* A push onto a full history has dropped the oldest snapshot.
C2_Witness ==
    /\ lastOp = "toggle-type"
    /\ Len(history) = HistoryLimit
    /\ Len(opLog) > HistoryLimit

\* C8: a merge request with fewer than two selected blocks, or fewer than two
\* of them on the page, or whose crop fails, leaves the page collection
\* exactly as it was: neither the request (up to its await) nor the failure of
\* the crop changes a page.
C8_FailedMergeKeepsPages ==
    [][lastOp' \in {"merge-rejected", "merge-unresolved", "merge", "merge-failed"}
          => pages' = pages]_vars

\* A merge was requested with two ids selected of which one names no block.
C8_Witness ==
    /\ lastOp = "merge-unresolved"
    /\ Cardinality(selectedBlockIds) = 2

\* C9: undo with an empty history changes nothing: pages, selection and
\* history stay as they are.
C9_UndoOnEmptyHistory ==
    [][lastOp' = "undo-empty" =>
          /\ pages' = pages
          /\ selectedBlockIds' = selectedBlockIds
          /\ history' = history]_vars

\* Undo was called with an empty history and a selection in place.
C9_Witness ==
    /\ lastOp = "undo-empty"
    /\ selectedBlockIds # {}

\* C11: whenever a detection of a page fails, whether the processing effect,
\* Run OCR or Export started it, that page's status becomes ERROR and its
\* blocks are those it had before the attempt.
C11_FailedDetectionMarksError ==
    [][/\ \A j \in DOMAIN detections :
             (/\ lastOp' = "detect-failed"
              /\ detections' = RemoveAt(detections, j)
              /\ HasPage(pages, detections[j].pageIndex))
             => /\ PageAt(pages', detections[j].pageIndex).status = ERROR
                /\ PageAt(pages', detections[j].pageIndex).blocks
                      = PageAt(pages, detections[j].pageIndex).blocks
       /\ (lastOp' = "slice-failed" /\ HasPage(pages, job.i))
             => /\ PageAt(pages', job.i).status = ERROR
                /\ PageAt(pages', job.i).blocks = PageAt(pages, job.i).blocks]_vars

\* C20: in every reachable state the ids of the blocks of one page are pairwise
\* distinct, whatever detections, merges (several in quick succession
\* included), toggles and undos came before.
C20_BlockIdsDistinct ==
    \A i \in DOMAIN pages : \A j, k \in DOMAIN pages[i].blocks :
       j # k => pages[i].blocks[j].id # pages[i].blocks[k].id

-----------------------------------------------------------------------------
(* Properties of a two-page session (SpecPages) *)

\* C25: every page that enters Processing eventually becomes Ready or Error,
\* every started detection completing, whatever the user turns, toggles,
\* merges or undoes meanwhile.
C25_ProcessingEnds ==
    \A i \in {0, 1} :
        (PageAt(pages, i).status = PROCESSING)
            ~> (PageAt(pages, i).status \in {READY, ERROR})

\* Page i is Ready, detected at granularity g, and set to it.
SettledAt(i, g) ==
    /\ PageAt(pages, i).status = READY
    /\ PageAt(pages, i).granularity = g
    /\ PageAt(pages, i).processedGranularity = g

\* C26: when the user sets granularity g on the active page, then, unless the
\* slider is moved again or the page is left, the page eventually is Ready
\* with granularity = processedGranularity = g.
C26_LastSettingWins ==
    \A i \in {0, 1} : \A g \in {1, DefaultGranularity} :
        (lab.in.set = <<i, g>>)
            ~> (lab.in.set # <<i, g>> \/ activePageIndex # i \/ SettledAt(i, g))

\* C27: every detection the processing effect starts runs with the granularity
\* stored on the page it detects, and storing its result leaves that page's
\* granularity as it was.
C27_DetectsWithPageGranularity ==
    [][/\ \A j \in DOMAIN detections' :
             detections'[j].g = detections'[j].pageGranularity
       /\ \A j \in DOMAIN detections :
             (lastOp' = "detected" /\ detections' = RemoveAt(detections, j)) =>
                PageAt(pages', detections[j].pageIndex).granularity
                    = PageAt(pages, detections[j].pageIndex).granularity]_vars

\* Collection q is collection p with one block's type or background toggled.
ToggledOnce(p, q) ==
    \E i \in DOMAIN p : \E k \in DOMAIN p[i].blocks :
        \/ q = [p EXCEPT ![i].blocks[k] = toggleType(@)]
        \/ q = [p EXCEPT ![i].blocks[k] = toggleBackground(@)]

\* A merge was clicked, one toggle was applied while it awaited its crop, and
\* the merge has just been stored: the last two snapshots are those the two
\* clicks pushed.
ToggleOverlappedMerge ==
    /\ lastOp = "merged"
    /\ Len(history) = Len(lab.in.historyAtMerge) + 2
    /\ history[Len(history)] = history[Len(history) - 1]
    /\ ToggledOnce(history[Len(history)], lab.in.beforeMerged)

\* C28: when a toggle is applied while a merge awaits its crop and the merge
\* then completes, the first undo gives the state with the toggle applied and
\* the merge reverted, and leaves the state before both for the second undo.
C28_UndoRevertsOneOperation ==
    [][(ToggleOverlappedMerge /\ lastOp' = "undo") =>
          /\ pages' = lab.in.beforeMerged
          /\ Len(history') > 0
          /\ previousPages(history') = history[Len(history) - 1]]_vars

\* C29: the history grows only when the page collection changes: a toggle or a
\* merge click that changes no page, and a merge whose crop fails, leave the
\* history as it was before the operation.
C29_HistoryGrowsOnlyOnChange ==
    [][/\ (lastOp' \in {"toggle-type", "toggle-background", "merge-unresolved"}
              /\ pages' = pages) => history' = history
       /\ (lastOp = "merge" /\ lastOp' = "merge-failed") =>
              history' = lab.in.historyAtMerge]_vars

\* C30: the selection never carries over between pages: when the active page
\* changes, no block id stays selected.
C30_SelectionStaysOnItsPage ==
    [][activePageIndex' # activePageIndex => selectedBlockIds' = {}]_vars

====
